---------------------------- MODULE Spec2Model ----------------------------
(***************************************************************************)
(* Model of the OTA delta-update subsystem of the DataJam NB-IoT backend   *)
(* receiver (src/backend/receiver.py).                                     *)
(*                                                                         *)
(* The SQLite database is the record db (the committed tables).  Tables    *)
(* without a usable key are bags of rows, so that a duplicate row is a     *)
(* different table from a single row; UNIQUE constraints are checked       *)
(* explicitly by the INSERT operators.  Every HTTP request runs in a slot  *)
(* (a Flask worker thread with its own sqlite3 connection, get_db) and     *)
(* advances statement by statement.  The first INSERT/UPDATE of a request  *)
(* opens sqlite3's implicit transaction and takes the database write lock  *)
(* (writer); the uncommitted image is txn and becomes db at conn.commit(). *)
(* A single statement followed at once by conn.commit() is one step.       *)
(* Timestamps (started_at, last_chunk_at, release_date, created_at) are    *)
(* not modelled.                                                           *)
(***************************************************************************)
EXTENDS Integers, FiniteSets, Sequences, Bags, TLC

VARIABLES
    db,           \* committed database: firmware_versions, ota_patches,
                  \* device_ota_progress (bags of rows), devices (by device_id)
    txn,          \* uncommitted image of the connection holding the write lock
    writer,       \* slot whose connection holds the write lock, or NoSlot
    patch_files,  \* OTA_PATCHES_DIR: patch_<from>_to_<to>.bin / .json
    req,          \* per slot: the request being handled and its position
    out,          \* the response returned by the last step, if it returned one
    served,       \* history: per (device, target), chunk indices whose fetch
                  \* updated or re-read an existing session
    lastResume,   \* history: per (device, target), resume_from of the last
                  \* Check offer since the last chunk fetch, or NoResume
    failedNoCheck, \* history: per (device, target), TRUE from a failed
                  \* completion report until the device's next Check
    commands      \* history: the queue_command calls numbered in the order
                  \* they were accepted: which one pending_command holds,
                  \* which one each request wrote or read, how many
                  \* responses carried each, and which were set to NULL

vars == <<db, txn, writer, patch_files, req, out, served, lastResume, failedNoCheck,
          commands>>

-----------------------------------------------------------------------------
(* Bounds and program constants *)

MaxChunks == 3
OTA_CHUNK_SIZE == 512

\* queue_command calls accepted in one behaviour.
MaxQueued == 2

Devices == {"JBNB0001", "JBNB0002"}
Versions == {"4.5", "4.6", "4.7"}
Slots == {"r1", "r2"}

NoSlot == "none"
NoDev == ""
Missing == ""
NULL == "NULL"
NoResume == 0 - 1
NoFile == 0 - 1

Keys == Devices \X Versions
Pairs == Versions \X Versions

Max(a, b) == IF a >= b THEN a ELSE b
Min(a, b) == IF a <= b THEN a ELSE b

\* Size in bytes of a patch of n chunks whose last chunk holds 57 bytes.
SizeOfChunks(n) == (n - 1) * OTA_CHUNK_SIZE + 57

-----------------------------------------------------------------------------
(* Tables *)

\* The rows of bag B that lie in the set S, with their multiplicities.
BagWhere(B, S) == [r \in S \cap BagToSet(B) |-> CopiesIn(r, B)]

\* An UPDATE over bag B: every row r becomes f[r] (f a function on the rows).
BagImage(B, f) ==
    [n \in {f[r] : r \in BagToSet(B)} |->
        BagCardinality(BagWhere(B, {x \in BagToSet(B) : f[x] = n}))]

BagAdd(B, row) == B (+) SetToBag({row})

\* SELECT version FROM firmware_versions WHERE is_current = 1
SelectCurrentFw(t) == {r \in BagToSet(t.firmware_versions) : r.is_current = 1}

\* Fault variant of SelectPatch: any patch that leads to the target is taken.
SelectPatchAnyFrom(t, from, to) ==
    {r \in BagToSet(t.ota_patches) : r.to_version = to}

\* SELECT ... FROM ota_patches WHERE from_version = ? AND to_version = ?
SelectPatch(t, from, to) ==
    {r \in BagToSet(t.ota_patches) : r.from_version = from /\ r.to_version = to}

\* SELECT ... FROM device_ota_progress WHERE device_id = ? AND target_version = ?
SelectProgress(t, dev, target) ==
    {r \in BagToSet(t.device_ota_progress) :
        r.device_id = dev /\ r.target_version = target}

\* Number of device_ota_progress rows for (dev, target), duplicates counted.
CountProgress(t, dev, target) ==
    BagCardinality(BagWhere(t.device_ota_progress, SelectProgress(t, dev, target)))

\* Fault variant of UniqueProgress: the table has no UNIQUE constraint.
UniqueProgressOff(t, dev, target) == TRUE

\* UNIQUE(device_id, target_version) of device_ota_progress: may a row for
\* (dev, target) be inserted?
UniqueProgress(t, dev, target) == SelectProgress(t, dev, target) = {}

\* The row ota_check inserts; chunks_received DEFAULT 0, error_message NULL.
NewProgress(dev, target, total) ==
    [device_id |-> dev, target_version |-> target, chunks_received |-> 0,
     total_chunks |-> total, status |-> "pending", error_message |-> NULL]

\* Fault variant of InsertProgress: no row is written.
InsertProgressSkipped(t, dev, target, total) == t

\* INSERT INTO device_ota_progress (...) VALUES (?, ?, ?, ?, 'pending')
InsertProgress(t, dev, target, total) ==
    [t EXCEPT !.device_ota_progress = BagAdd(@, NewProgress(dev, target, total))]

\* Fault variant of UpdateChunksReceived: the WHERE clause lacks
\* "AND chunks_received < ?", so the last writer wins.
UpdateChunksReceivedUnguarded(t, dev, to, n) ==
    LET f == [r \in BagToSet(t.device_ota_progress) |->
                IF r.device_id = dev /\ r.target_version = to
                THEN [r EXCEPT !.chunks_received = n, !.status = "downloading"]
                ELSE r]
    IN [t EXCEPT !.device_ota_progress = BagImage(@, f)]

\* Fault variant of UpdateChunksReceived: the status is left as it is.
UpdateChunksReceivedKeepStatus(t, dev, to, n) ==
    LET f == [r \in BagToSet(t.device_ota_progress) |->
                IF r.device_id = dev /\ r.target_version = to /\ r.chunks_received < n
                THEN [r EXCEPT !.chunks_received = n]
                ELSE r]
    IN [t EXCEPT !.device_ota_progress = BagImage(@, f)]

\* Fault variant of UpdateChunksReceived: a missing row is created.
UpdateChunksReceivedUpsert(t, dev, to, n) ==
    IF {r \in BagToSet(t.device_ota_progress) :
           r.device_id = dev /\ r.target_version = to} = {}
    THEN [t EXCEPT !.device_ota_progress =
            BagAdd(@, [device_id |-> dev, target_version |-> to,
                       chunks_received |-> n, total_chunks |-> n,
                       status |-> "downloading", error_message |-> NULL])]
    ELSE UpdateChunksReceivedUnguarded(t, dev, to, n)

\* UPDATE device_ota_progress SET chunks_received = ?, status = 'downloading'
\* WHERE device_id = ? AND target_version = ? AND chunks_received < ?
UpdateChunksReceived(t, dev, to, n) ==
    LET f == [r \in BagToSet(t.device_ota_progress) |->
                IF r.device_id = dev /\ r.target_version = to /\ r.chunks_received < n
                THEN [r EXCEPT !.chunks_received = n, !.status = "downloading"]
                ELSE r]
    IN [t EXCEPT !.device_ota_progress = BagImage(@, f)]

\* Fault variant of UpdateProgressComplete: completion also counts one more
\* chunk as received.
UpdateProgressCompleteCounting(t, dev, target) ==
    LET f == [r \in BagToSet(t.device_ota_progress) |->
                IF r.device_id = dev /\ r.target_version = target
                THEN [r EXCEPT !.status = "complete",
                               !.chunks_received = r.chunks_received + 1]
                ELSE r]
    IN [t EXCEPT !.device_ota_progress = BagImage(@, f)]

\* UPDATE device_ota_progress SET status = 'complete'
\* WHERE device_id = ? AND target_version = ?
UpdateProgressComplete(t, dev, target) ==
    LET f == [r \in BagToSet(t.device_ota_progress) |->
                IF r.device_id = dev /\ r.target_version = target
                THEN [r EXCEPT !.status = "complete"]
                ELSE r]
    IN [t EXCEPT !.device_ota_progress = BagImage(@, f)]

\* Fault variant of UpdateDeviceFirmware: the device row is not updated.
UpdateDeviceFirmwareSkipped(t, dev, version) == t

\* UPDATE devices SET firmware_version = ? WHERE device_id = ?
UpdateDeviceFirmware(t, dev, version) ==
    IF dev \in DOMAIN t.devices
    THEN [t EXCEPT !.devices[dev].firmware_version = version]
    ELSE t

\* Fault variant of UpdateProgressFailed: a failed session restarts from
\* chunk 0.
UpdateProgressFailedReset(t, dev, target, message) ==
    LET f == [r \in BagToSet(t.device_ota_progress) |->
                IF r.device_id = dev /\ r.target_version = target
                THEN [r EXCEPT !.status = "failed", !.error_message = message,
                               !.chunks_received = 0]
                ELSE r]
    IN [t EXCEPT !.device_ota_progress = BagImage(@, f)]

\* Fault variant of UpdateProgressFailed: the supplied message is not stored.
UpdateProgressFailedNoMessage(t, dev, target, message) ==
    LET f == [r \in BagToSet(t.device_ota_progress) |->
                IF r.device_id = dev /\ r.target_version = target
                THEN [r EXCEPT !.status = "failed"]
                ELSE r]
    IN [t EXCEPT !.device_ota_progress = BagImage(@, f)]

\* UPDATE device_ota_progress SET status = 'failed', error_message = ?
\* WHERE device_id = ? AND target_version = ?
UpdateProgressFailed(t, dev, target, message) ==
    LET f == [r \in BagToSet(t.device_ota_progress) |->
                IF r.device_id = dev /\ r.target_version = target
                THEN [r EXCEPT !.status = "failed", !.error_message = message]
                ELSE r]
    IN [t EXCEPT !.device_ota_progress = BagImage(@, f)]

-----------------------------------------------------------------------------
(* Requests *)

NoArgs == <<>>
IdleReq == [h |-> "idle", pc |-> "idle", a |-> NoArgs, l |-> NoArgs]
NoOut == [h |-> "none", a |-> NoArgs, resp |-> NoArgs]

\* A slot is free when no request is being handled in it.
Free(s) == req[s].pc = "idle"

Running(s, handler, at) == req[s].h = handler /\ req[s].pc = at

\* The handler in slot s returns response r.
Respond(s, r) ==
    /\ req' = [req EXCEPT ![s] = IdleReq]
    /\ out' = [h |-> req[s].h, a |-> NoArgs, resp |-> r]

\* A request with arguments args is answered with r by the handler's first
\* checks, before it touches the database.
Reject(s, handler, args, r) ==
    /\ req' = req
    /\ out' = [h |-> handler, a |-> args, resp |-> r]

\* A request with arguments args enters its handler at position at.
Start(s, handler, at, args) ==
    /\ req' = [req EXCEPT ![s] = [h |-> handler, pc |-> at, a |-> args, l |-> NoArgs]]
    /\ out' = NoOut

\* The handler in slot s moves on to position at with locals locals.
Goto(s, at, locals) ==
    /\ req' = [req EXCEPT ![s].pc = at, ![s].l = locals]
    /\ out' = NoOut

Error(code, message) == [code |-> code, body |-> [error |-> message]]

\* The write lock is free: the first INSERT/UPDATE of a connection waits for it.
CanWrite(s) == writer = NoSlot

UnchangedHistory == UNCHANGED <<served, lastResume, failedNoCheck, commands>>
UnchangedStore == UNCHANGED <<db, txn, writer, patch_files>>

-----------------------------------------------------------------------------
(* calculate_crc16 *)

\* a ^ b on non-negative integers.
BitXor(a, b) ==
    LET xor[p \in Nat, q \in Nat] ==
            IF p = 0 THEN q
            ELSE IF q = 0 THEN p
            ELSE (((p % 2) + (q % 2)) % 2) + 2 * xor[p \div 2, q \div 2]
    IN xor[a, b]

\* Fault variant of Crc16Shift: the polynomial is 0x8005.
Crc16ShiftPoly8005(crc, n) ==
    LET shift[c \in 0..65535, k \in 0..8] ==
            IF k = 0 THEN c
            ELSE shift[IF (c \div 32768) % 2 = 1
                       THEN BitXor(c * 2, 32773) % 65536
                       ELSE (c * 2) % 65536,
                       k - 1]
    IN shift[crc, n]

\* for _ in range(n): if crc & 0x8000: crc = (crc << 1) ^ 0x1021
\* else: crc <<= 1; crc &= 0xFFFF
Crc16Shift(crc, n) ==
    LET shift[c \in 0..65535, k \in 0..8] ==
            IF k = 0 THEN c
            ELSE shift[IF (c \div 32768) % 2 = 1
                       THEN BitXor(c * 2, 4129) % 65536
                       ELSE (c * 2) % 65536,
                       k - 1]
    IN shift[crc, n]

\* crc = 0xFFFF; for byte in data: crc ^= byte << 8, then the 8 shift
\* steps; return crc.  crc[i] is the register after the first i bytes.
calculate_crc16(data) ==
    LET crc[i \in 0..Len(data)] ==
            IF i = 0 THEN 65535
            ELSE Crc16Shift(BitXor(crc[i - 1], data[i] * 256), 8)
    IN crc[Len(data)]

\* The checksum of data is computed.
calculate_crc16_call(s) ==
    /\ Running(s, "calculate_crc16", "call")
    /\ req' = [req EXCEPT ![s] = IdleReq]
    /\ out' = [h |-> "calculate_crc16", a |-> req[s].a,
               resp |-> calculate_crc16(req[s].a)]
    /\ UnchangedHistory
    /\ UnchangedStore

-----------------------------------------------------------------------------
(* POST /api/ota/check *)

NoUpdate(why) == [code |-> 200, body |-> [update_available |-> FALSE, reason |-> why]]

NoPatch(current, target) ==
    [code |-> 200, body |-> [update_available |-> FALSE, reason |-> "no_patch",
                             current |-> current, target |-> target]]

Offer(target, patch, resume, status) ==
    [code |-> 200,
     body |-> [update_available |-> TRUE, target_version |-> target,
               patch_size |-> patch.patch_size, chunk_count |-> patch.chunk_count,
               chunk_size |-> OTA_CHUNK_SIZE, patch_sha256 |-> patch.sha256,
               resume_from |-> resume, status |-> status]]

\* The authenticated device d declares current_version v.
ota_check_request(s, d, v) ==
    /\ Free(s)
    /\ LET args == [device_id |-> d, current_version |-> v]
       IN IF v = Missing
          THEN Reject(s, "ota_check", args, Error(400, "Missing current version (v)"))
          ELSE Start(s, "ota_check", "select_current", args)
    /\ failedNoCheck' = [k \in Keys |-> IF k[1] = d THEN FALSE ELSE failedNoCheck[k]]
    /\ UNCHANGED <<served, lastResume, commands>>
    /\ UnchangedStore

\* Fault variant of ota_check_select_current: the declared version is not
\* compared with the current one.
ota_check_select_current_uncompared(s) ==
    /\ Running(s, "ota_check", "select_current")
    /\ IF SelectCurrentFw(db) = {}
       THEN Respond(s, NoUpdate("no_current_firmware"))
       ELSE \E fw \in SelectCurrentFw(db) :
              Goto(s, "select_patch", [target_version |-> fw.version])
    /\ UnchangedHistory
    /\ UnchangedStore

ota_check_select_current(s) ==
    /\ Running(s, "ota_check", "select_current")
    /\ IF SelectCurrentFw(db) = {}
       THEN Respond(s, NoUpdate("no_current_firmware"))
       ELSE \E fw \in SelectCurrentFw(db) :
              IF req[s].a.current_version = fw.version
              THEN Respond(s, NoUpdate("up_to_date"))
              ELSE Goto(s, "select_patch", [target_version |-> fw.version])
    /\ UnchangedHistory
    /\ UnchangedStore

ota_check_select_patch(s) ==
    /\ Running(s, "ota_check", "select_patch")
    /\ LET current == req[s].a.current_version
           target == req[s].l.target_version
       IN IF SelectPatch(db, current, target) = {}
          THEN Respond(s, NoPatch(current, target))
          ELSE \E p \in SelectPatch(db, current, target) :
                 Goto(s, "select_progress", [target_version |-> target, patch |-> p])
    /\ UnchangedHistory
    /\ UnchangedStore

ota_check_select_progress(s) ==
    /\ Running(s, "ota_check", "select_progress")
    /\ LET d == req[s].a.device_id
           target == req[s].l.target_version
       IN IF SelectProgress(db, d, target) # {}
          THEN \E progress \in SelectProgress(db, d, target) :
                 /\ Respond(s, Offer(target, req[s].l.patch,
                                     progress.chunks_received, progress.status))
                 /\ lastResume' = [lastResume EXCEPT ![<<d, target>>] =
                                        progress.chunks_received]
          ELSE /\ Goto(s, "insert", req[s].l)
               /\ UNCHANGED lastResume
    /\ UNCHANGED <<served, failedNoCheck, commands>>
    /\ UnchangedStore

\* The INSERT and its conn.commit(); sqlite3.IntegrityError ends in the
\* handler's except clause with a 500.
ota_check_insert(s) ==
    /\ Running(s, "ota_check", "insert")
    /\ CanWrite(s)
    /\ LET d == req[s].a.device_id
           target == req[s].l.target_version
           patch == req[s].l.patch
       IN IF UniqueProgress(db, d, target)
          THEN /\ db' = InsertProgress(db, d, target, patch.chunk_count)
               /\ txn' = db'
               /\ Respond(s, Offer(target, patch, 0, "pending"))
               /\ lastResume' = [lastResume EXCEPT ![<<d, target>>] = 0]
          ELSE /\ Respond(s, Error(500, "UNIQUE constraint failed"))
               /\ UNCHANGED <<db, txn, lastResume>>
    /\ UNCHANGED <<writer, patch_files, served, failedNoCheck, commands>>

-----------------------------------------------------------------------------
(* GET /api/ota/chunk *)

\* device_id = request.args.get('d') or g.device_id
ChunkDevice(query_d, auth) == IF query_d # NoDev THEN query_d ELSE auth

\* f.seek(chunk_index * OTA_CHUNK_SIZE); f.read(OTA_CHUNK_SIZE) on a file of
\* size bytes: the byte range read.
ReadChunk(size, chunk_index) ==
    [offset |-> chunk_index * OTA_CHUNK_SIZE,
     size |-> Max(0, Min(OTA_CHUNK_SIZE, size - chunk_index * OTA_CHUNK_SIZE))]

ChunkResponse(chunk_index, data, total) ==
    [code |-> 200,
     body |-> [chunk |-> chunk_index, data |-> data, size |-> data.size,
               total |-> total]]

\* Fault variant of InvalidChunkIndex: the index one past the last chunk is
\* let through.
InvalidChunkIndexOffByOne(chunk_index, total_chunks) ==
    chunk_index < 0 \/ chunk_index > total_chunks

\* chunk_index < 0 or chunk_index >= total_chunks
InvalidChunkIndex(chunk_index, total_chunks) ==
    chunk_index < 0 \/ chunk_index >= total_chunks

\* Parameter checks, the two file lookups, the index check and the read of
\* the chunk; chunk is <<>> when the query has no integer chunk parameter.
ota_get_chunk_request(s, auth, query_d, from, to, chunk) ==
    /\ Free(s)
    /\ LET args == [auth |-> auth, d |-> query_d, from |-> from, to |-> to,
                    chunk |-> chunk]
       IN IF from = Missing \/ to = Missing \/ chunk = <<>>
          THEN Reject(s, "ota_get_chunk", args,
                      Error(400, "Missing required params: from, to, chunk"))
          ELSE IF patch_files.bin[<<from, to>>] = NoFile
          THEN Reject(s, "ota_get_chunk", args, Error(404, "Patch not found"))
          ELSE IF patch_files.meta[<<from, to>>] = NoFile
          THEN Reject(s, "ota_get_chunk", args, Error(404, "Patch metadata not found"))
          ELSE LET total_chunks == patch_files.meta[<<from, to>>]
                   chunk_index == chunk[1]
               IN IF InvalidChunkIndex(chunk_index, total_chunks)
                  THEN Reject(s, "ota_get_chunk", args,
                              Error(400, <<"Invalid chunk index. Valid: 0-",
                                           total_chunks - 1>>))
                  ELSE Start(s, "ota_get_chunk", "update",
                             [auth |-> auth,
                              device_id |-> ChunkDevice(query_d, auth),
                              from_version |-> from, to_version |-> to,
                              chunk_index |-> chunk_index,
                              total_chunks |-> total_chunks,
                              data |-> ReadChunk(patch_files.bin[<<from, to>>],
                                                 chunk_index)])
    /\ UnchangedHistory
    /\ UnchangedStore

\* The UPDATE of the progress row and its conn.commit(), then the response.
ota_get_chunk_update(s) ==
    /\ Running(s, "ota_get_chunk", "update")
    /\ CanWrite(s)
    /\ LET d == req[s].a.device_id
           to == req[s].a.to_version
           i == req[s].a.chunk_index
       IN /\ db' = UpdateChunksReceived(db, d, to, i + 1)
          /\ txn' = db'
          /\ Respond(s, ChunkResponse(i, req[s].a.data, req[s].a.total_chunks))
          /\ served' = IF SelectProgress(db, d, to) # {}
                       THEN [served EXCEPT ![<<d, to>>] = @ \cup {i}]
                       ELSE served
          /\ lastResume' = [lastResume EXCEPT ![<<d, to>>] = NoResume]
    /\ UNCHANGED <<writer, patch_files, failedNoCheck, commands>>

-----------------------------------------------------------------------------
(* POST /api/ota/complete *)

CompleteOk == [code |-> 200, body |-> [status |-> "ok", message |-> "OTA update confirmed"]]

CompleteFailed(message) ==
    [code |-> 200, body |-> [status |-> "failed", message |-> message]]

\* The database after a whole ota_complete request on database t.
CompleteTxn(t, d, v, success, message) ==
    IF success
    THEN UpdateDeviceFirmware(UpdateProgressComplete(t, d, v), d, v)
    ELSE UpdateProgressFailed(t, d, v, message)

\* The response of a whole ota_complete request.
CompleteResponse(success, message) ==
    IF success THEN CompleteOk ELSE CompleteFailed(message)

ota_complete_request(s, d, v, success, message) ==
    /\ Free(s)
    /\ LET args == [device_id |-> d, new_version |-> v, success |-> success,
                    error_message |-> message]
       IN IF v = Missing
          THEN Reject(s, "ota_complete", args, Error(400, "Missing version (v)"))
          ELSE Start(s, "ota_complete",
                     IF success THEN "update_progress" ELSE "update_failed", args)
    /\ UnchangedHistory
    /\ UnchangedStore

\* success: the first UPDATE opens the transaction.
ota_complete_update_progress(s) ==
    /\ Running(s, "ota_complete", "update_progress")
    /\ CanWrite(s)
    /\ writer' = s
    /\ txn' = UpdateProgressComplete(db, req[s].a.device_id, req[s].a.new_version)
    /\ Goto(s, "update_device", NoArgs)
    /\ UNCHANGED <<db, patch_files>>
    /\ UnchangedHistory

ota_complete_update_device(s) ==
    /\ Running(s, "ota_complete", "update_device")
    /\ writer = s
    /\ txn' = UpdateDeviceFirmware(txn, req[s].a.device_id, req[s].a.new_version)
    /\ Goto(s, "commit", NoArgs)
    /\ UNCHANGED <<db, writer, patch_files>>
    /\ UnchangedHistory

ota_complete_commit(s) ==
    /\ Running(s, "ota_complete", "commit")
    /\ writer = s
    /\ db' = txn
    /\ writer' = NoSlot
    /\ Respond(s, CompleteOk)
    /\ UNCHANGED <<txn, patch_files>>
    /\ UnchangedHistory

\* not success: the UPDATE and its conn.commit().
ota_complete_update_failed(s) ==
    /\ Running(s, "ota_complete", "update_failed")
    /\ CanWrite(s)
    /\ LET d == req[s].a.device_id
           v == req[s].a.new_version
       IN /\ db' = UpdateProgressFailed(db, d, v, req[s].a.error_message)
          /\ txn' = db'
          /\ failedNoCheck' = IF SelectProgress(db, d, v) # {}
                              THEN [failedNoCheck EXCEPT ![<<d, v>>] = TRUE]
                              ELSE failedNoCheck
    /\ Respond(s, CompleteFailed(req[s].a.error_message))
    /\ UNCHANGED <<writer, patch_files, served, lastResume, commands>>

-----------------------------------------------------------------------------
(* POST /api/ota/register-firmware (admin) *)

\* Number of firmware_versions rows with is_current = 1, duplicates counted.
CountCurrent(t) ==
    BagCardinality(BagWhere(t.firmware_versions, SelectCurrentFw(t)))

\* Fault variant of ClearCurrent: the previous current version keeps its flag.
ClearCurrentSkipped(t) == t

\* UPDATE firmware_versions SET is_current = 0 WHERE is_current = 1
ClearCurrent(t) ==
    LET f == [r \in BagToSet(t.firmware_versions) |->
                IF r.is_current = 1 THEN [r EXCEPT !.is_current = 0] ELSE r]
    IN [t EXCEPT !.firmware_versions = BagImage(@, f)]

\* Fault variant of UniqueVersion: the column has no UNIQUE constraint.
UniqueVersionOff(t, version) == TRUE

\* version TEXT UNIQUE NOT NULL: may a row for version be inserted?
UniqueVersion(t, version) ==
    {r \in BagToSet(t.firmware_versions) : r.version = version} = {}

FirmwareRow(a) ==
    [version |-> a.version, binary_size |-> a.binary_size, sha256 |-> a.sha256,
     release_notes |-> a.release_notes,
     is_current |-> IF a.is_current THEN 1 ELSE 0]

\* Fault variant of UpsertFirmware: an existing version keeps its row.
UpsertFirmwareIgnore(t, a) ==
    IF UniqueVersion(t, a.version)
    THEN [t EXCEPT !.firmware_versions = BagAdd(@, FirmwareRow(a))]
    ELSE t

\* INSERT INTO firmware_versions (...) and, on sqlite3.IntegrityError,
\* UPDATE firmware_versions SET binary_size, sha256, release_notes,
\* is_current WHERE version = ?
UpsertFirmware(t, a) ==
    IF UniqueVersion(t, a.version)
    THEN [t EXCEPT !.firmware_versions = BagAdd(@, FirmwareRow(a))]
    ELSE LET f == [r \in BagToSet(t.firmware_versions) |->
                     IF r.version = a.version THEN FirmwareRow(a) ELSE r]
         IN [t EXCEPT !.firmware_versions = BagImage(@, f)]

FirmwareRegistered(a) ==
    [code |-> 201, body |-> [status |-> "ok", version |-> a.version,
                             is_current |-> a.is_current]]

\* a: version, binary_size, sha256, release_notes, is_current; a missing
\* version or sha256 is Missing, a missing binary_size is 0.
ota_register_firmware_request(s, a) ==
    /\ Free(s)
    /\ IF a.version = Missing \/ a.binary_size = 0 \/ a.sha256 = Missing
       THEN Reject(s, "ota_register_firmware", a,
                   Error(400, "Missing required fields: version, binary_size, sha256"))
       ELSE Start(s, "ota_register_firmware",
                  IF a.is_current THEN "clear_current" ELSE "upsert", a)
    /\ UnchangedHistory
    /\ UnchangedStore

\* is_current: the UPDATE that unsets the previous current opens the
\* transaction.
ota_register_firmware_clear(s) ==
    /\ Running(s, "ota_register_firmware", "clear_current")
    /\ CanWrite(s)
    /\ writer' = s
    /\ txn' = ClearCurrent(db)
    /\ Goto(s, "upsert", NoArgs)
    /\ UNCHANGED <<db, patch_files>>
    /\ UnchangedHistory

\* The INSERT (or UPDATE) runs in the transaction the clearing UPDATE
\* opened, or opens one.
ota_register_firmware_upsert(s) ==
    /\ Running(s, "ota_register_firmware", "upsert")
    /\ writer = s \/ CanWrite(s)
    /\ writer' = s
    /\ txn' = UpsertFirmware(IF writer = s THEN txn ELSE db, req[s].a)
    /\ Goto(s, "commit", NoArgs)
    /\ UNCHANGED <<db, patch_files>>
    /\ UnchangedHistory

ota_register_firmware_commit(s) ==
    /\ Running(s, "ota_register_firmware", "commit")
    /\ writer = s
    /\ db' = txn
    /\ writer' = NoSlot
    /\ Respond(s, FirmwareRegistered(req[s].a))
    /\ UNCHANGED <<txn, patch_files>>
    /\ UnchangedHistory

-----------------------------------------------------------------------------
(* POST /api/ota/register-patch (admin) *)

\* Fault variant of UniquePatch: the table has no UNIQUE constraint.
UniquePatchOff(t, from, to) == TRUE

\* UNIQUE(from_version, to_version) of ota_patches: may a row for (from, to)
\* be inserted?
UniquePatch(t, from, to) == SelectPatch(t, from, to) = {}

\* compression = data.get('compression', 'heatshrink'); Missing is a body
\* without the key.
Compression(a) == IF a.compression = Missing THEN "heatshrink" ELSE a.compression

PatchOf(a) ==
    [from_version |-> a.from_version, to_version |-> a.to_version,
     patch_size |-> a.patch_size, chunk_count |-> a.chunk_count,
     sha256 |-> a.sha256, compression |-> Compression(a)]

\* Fault variant of UpsertPatch: an existing pair keeps its record.
UpsertPatchIgnore(t, a) ==
    IF UniquePatch(t, a.from_version, a.to_version)
    THEN [t EXCEPT !.ota_patches = BagAdd(@, PatchOf(a))]
    ELSE t

\* INSERT INTO ota_patches (...) and, on sqlite3.IntegrityError,
\* UPDATE ota_patches SET patch_size, chunk_count, sha256, compression
\* WHERE from_version = ? AND to_version = ?
UpsertPatch(t, a) ==
    IF UniquePatch(t, a.from_version, a.to_version)
    THEN [t EXCEPT !.ota_patches = BagAdd(@, PatchOf(a))]
    ELSE LET f == [r \in BagToSet(t.ota_patches) |->
                     IF r.from_version = a.from_version /\ r.to_version = a.to_version
                     THEN PatchOf(a) ELSE r]
         IN [t EXCEPT !.ota_patches = BagImage(@, f)]

PatchRegistered(a) ==
    [code |-> 201, body |-> [status |-> "ok", from_version |-> a.from_version,
                             to_version |-> a.to_version,
                             chunk_count |-> a.chunk_count]]

\* a: from_version, to_version, patch_size, chunk_count, sha256, compression;
\* a missing string is Missing, a missing (or zero) number is 0.
ota_register_patch_request(s, a) ==
    /\ Free(s)
    /\ IF \/ a.from_version = Missing \/ a.to_version = Missing
          \/ a.patch_size = 0 \/ a.chunk_count = 0 \/ a.sha256 = Missing
       THEN Reject(s, "ota_register_patch", a, Error(400, "Missing required fields"))
       ELSE Start(s, "ota_register_patch", "upsert", a)
    /\ UnchangedHistory
    /\ UnchangedStore

\* The INSERT (or UPDATE) opens the transaction.
ota_register_patch_upsert(s) ==
    /\ Running(s, "ota_register_patch", "upsert")
    /\ CanWrite(s)
    /\ writer' = s
    /\ txn' = UpsertPatch(db, req[s].a)
    /\ Goto(s, "commit", NoArgs)
    /\ UNCHANGED <<db, patch_files>>
    /\ UnchangedHistory

ota_register_patch_commit(s) ==
    /\ Running(s, "ota_register_patch", "commit")
    /\ writer = s
    /\ db' = txn
    /\ writer' = NoSlot
    /\ Respond(s, PatchRegistered(req[s].a))
    /\ UNCHANGED <<txn, patch_files>>
    /\ UnchangedHistory

-----------------------------------------------------------------------------
(* A handler that raises, or a worker that dies, before conn.commit(): the  *)
(* except clause answers 500 and close_db drops the connection, which rolls *)
(* the open transaction back.                                               *)

Abort(s) ==
    /\ ~Free(s)
    /\ Respond(s, Error(500, "aborted"))
    /\ IF writer = s
       THEN writer' = NoSlot /\ txn' = db
       ELSE UNCHANGED <<writer, txn>>
    /\ UNCHANGED <<db, patch_files>>
    /\ UnchangedHistory

-----------------------------------------------------------------------------
(* pending_command: POST /api/device/<device_id>/command, POST             *)
(* /api/heartbeat and POST /api/reading                                     *)

CommandIds == 1..MaxQueued

\* No queue_command call yet; 0 stands for no call.
NoCommands ==
    [calls |-> 0,
     id |-> [s \in Slots |-> 0],
     pending |-> [d \in Devices |-> 0],
     returned |-> [i \in CommandIds |-> 0],
     cleared |-> {}]

valid_commands == {"reboot", "send_now", "geolocate", "ota_check"}

\* UPDATE devices SET pending_command = ? WHERE device_id = ?
UpdatePendingCommand(t, dev, command) ==
    IF dev \in DOMAIN t.devices
    THEN [t EXCEPT !.devices[dev].pending_command = command]
    ELSE t

\* UPDATE devices SET last_seen_at = ?, ..., firmware_version =
\* COALESCE(?, firmware_version) WHERE device_id = ?
UpdateDeviceSeen(t, dev, firmware) ==
    IF dev \in DOMAIN t.devices /\ firmware # NULL
    THEN [t EXCEPT !.devices[dev].firmware_version = firmware]
    ELSE t

CommandQueued(device_id, command) ==
    [code |-> 200,
     body |-> [status |-> "queued", device_id |-> device_id, command |-> command]]

\* The command check and get_db.
queue_command_request(s, device_id, command) ==
    /\ Free(s)
    /\ LET args == [device_id |-> device_id, command |-> command]
       IN IF command \notin valid_commands
          THEN /\ Reject(s, "queue_command", args,
                         Error(400, "Invalid command. Use: reboot, send_now, geolocate, ota_check"))
               /\ UNCHANGED commands
          ELSE /\ commands.calls < MaxQueued
               /\ Start(s, "queue_command", "select_device", args)
               /\ commands' = [commands EXCEPT !.calls = @ + 1,
                                               !.id[s] = commands.calls + 1]
    /\ UNCHANGED <<served, lastResume, failedNoCheck>>
    /\ UnchangedStore

\* SELECT device_id FROM devices WHERE device_id = ?
queue_command_select_device(s) ==
    /\ Running(s, "queue_command", "select_device")
    /\ IF req[s].a.device_id \notin DOMAIN db.devices
       THEN /\ Respond(s, Error(404, "Device not found"))
            /\ commands' = [commands EXCEPT !.id[s] = 0]
       ELSE /\ Goto(s, "update", NoArgs)
            /\ UNCHANGED commands
    /\ UNCHANGED <<served, lastResume, failedNoCheck>>
    /\ UnchangedStore

\* The UPDATE of pending_command and its conn.commit(), then the response.
queue_command_update(s) ==
    /\ Running(s, "queue_command", "update")
    /\ CanWrite(s)
    /\ LET d == req[s].a.device_id
       IN /\ db' = UpdatePendingCommand(db, d, req[s].a.command)
          /\ txn' = db'
          /\ Respond(s, CommandQueued(d, req[s].a.command))
          /\ commands' = [commands EXCEPT !.pending[d] = commands.id[s],
                                          !.id[s] = 0]
    /\ UNCHANGED <<writer, patch_files, served, lastResume, failedNoCheck>>

\* response = {"status": "ok"}, with response['command'] when one was read.
ContactResponse(code, command) ==
    IF command = NULL
    THEN [code |-> code, body |-> [status |-> "ok"]]
    ELSE [code |-> code, body |-> [status |-> "ok", command |-> command]]

\* The INSERT of the heartbeat or reading, the UPDATE of the devices row and
\* conn.commit().
ContactStore(s) ==
    /\ CanWrite(s)
    /\ db' = UpdateDeviceSeen(db, req[s].a.device_id, req[s].a.firmware)
    /\ txn' = db'
    /\ Goto(s, "select_command", NoArgs)
    /\ UNCHANGED <<writer, patch_files>>
    /\ UnchangedHistory

\* SELECT pending_command FROM devices WHERE device_id = ?
ContactSelectCommand(s, code) ==
    /\ LET d == req[s].a.device_id
           command == db.devices[d].pending_command
       IN IF command = NULL
          THEN /\ Respond(s, ContactResponse(code, NULL))
               /\ UNCHANGED commands
          ELSE /\ Goto(s, "clear", [command |-> command])
               /\ commands' = [commands EXCEPT !.id[s] = commands.pending[d]]
    /\ UNCHANGED <<served, lastResume, failedNoCheck>>
    /\ UnchangedStore

\* The response in slot s carries the command it read, and the command that
\* pending_command of dev holds now is set to NULL.
CommandDelivered(c, s, dev) ==
    [c EXCEPT !.returned[c.id[s]] = @ + 1,
              !.cleared = IF c.pending[dev] # 0 THEN @ \cup {c.pending[dev]} ELSE @,
              !.pending[dev] = 0,
              !.id[s] = 0]

\* UPDATE devices SET pending_command = NULL WHERE device_id = ?, its
\* conn.commit(), then the response with the command read before.
ContactClear(s, code) ==
    /\ CanWrite(s)
    /\ db' = UpdatePendingCommand(db, req[s].a.device_id, NULL)
    /\ txn' = db'
    /\ Respond(s, ContactResponse(code, req[s].l.command))
    /\ commands' = CommandDelivered(commands, s, req[s].a.device_id)
    /\ UNCHANGED <<writer, patch_files, served, lastResume, failedNoCheck>>

\* POST /api/heartbeat of the authenticated device d; firmware is NULL when
\* the payload names none.
heartbeat_request(s, d, firmware) ==
    /\ Free(s)
    /\ Start(s, "heartbeat", "store", [device_id |-> d, firmware |-> firmware])
    /\ UnchangedHistory
    /\ UnchangedStore

heartbeat_store(s) ==
    /\ Running(s, "heartbeat", "store")
    /\ ContactStore(s)

heartbeat_select_command(s) ==
    /\ Running(s, "heartbeat", "select_command")
    /\ ContactSelectCommand(s, 200)

heartbeat_clear(s) ==
    /\ Running(s, "heartbeat", "clear")
    /\ ContactClear(s, 200)

\* POST /api/reading of the authenticated device d; complete says that the
\* payload has its t, i and u fields.
receive_reading_request(s, d, firmware, complete) ==
    /\ Free(s)
    /\ LET args == [device_id |-> d, firmware |-> firmware]
       IN IF ~complete
          THEN Reject(s, "receive_reading", args,
                      Error(400, "Missing required fields: t, i, u"))
          ELSE Start(s, "receive_reading", "store", args)
    /\ UnchangedHistory
    /\ UnchangedStore

receive_reading_store(s) ==
    /\ Running(s, "receive_reading", "store")
    /\ ContactStore(s)

receive_reading_select_command(s) ==
    /\ Running(s, "receive_reading", "select_command")
    /\ ContactSelectCommand(s, 201)

receive_reading_clear(s) ==
    /\ Running(s, "receive_reading", "clear")
    /\ ContactClear(s, 201)

-----------------------------------------------------------------------------
(* require_device_auth: the decorator in front of the device endpoints *)

\* hashlib.sha256(token.encode()).hexdigest(): a digest, never the token.
hash_token(token) == <<"sha256", token>>

\* SELECT token_hash, status FROM devices WHERE device_id = ? and the three
\* tests on the row: <<valid, msg>>.
verify_device_token(database, device_id, token) ==
    IF device_id \notin DOMAIN database.devices
    THEN <<FALSE, "Device not registered">>
    ELSE LET device == database.devices[device_id]
         IN IF device.status # "active"
            THEN <<FALSE, <<"Device status: ", device.status>>>>
            ELSE IF device.token_hash # hash_token(token)
            THEN <<FALSE, "Invalid token">>
            ELSE <<TRUE, "OK">>

\* device_id = data.get('d') or data.get('device_id'), and if that is empty
\* request.args.get('d') or request.args.get('device_id').
RequestDevice(body_d, query_d) ==
    IF body_d # NoDev THEN body_d ELSE query_d

\* The decorator's outcome for a request with bearer token token (Missing
\* without an Authorization: Bearer header), device identifier body_d in the
\* JSON body and query_d in the query string: g.device_id, or NoDev and the
\* response the decorator returns itself.
require_device_auth(database, token, body_d, query_d) ==
    LET device_id == RequestDevice(body_d, query_d)
    IN IF token = Missing
       THEN [device_id |-> NoDev, resp |-> Error(401, "Missing Authorization header")]
       ELSE IF device_id = NoDev
       THEN [device_id |-> NoDev, resp |-> Error(400, "Missing device_id")]
       ELSE LET verified == verify_device_token(database, device_id, token)
            IN IF ~verified[1]
               THEN [device_id |-> NoDev, resp |-> Error(401, verified[2])]
               ELSE [device_id |-> device_id, resp |-> Error(200, "OK")]

\* A request stopped by the decorator.
AuthReject(s, token, body_d, query_d, resp) ==
    /\ Free(s)
    /\ Reject(s, "require_device_auth",
              [token |-> token, body_d |-> body_d, query_d |-> query_d], resp)
    /\ UnchangedHistory
    /\ UnchangedStore

\* POST /api/ota/check behind the decorator.
ota_check_decorated(s, token, body_d, query_d, v) ==
    LET auth == require_device_auth(db, token, body_d, query_d)
    IN IF auth.device_id = NoDev
       THEN AuthReject(s, token, body_d, query_d, auth.resp)
       ELSE ota_check_request(s, auth.device_id, v)

\* GET /api/ota/chunk behind the decorator.
ota_get_chunk_decorated(s, token, body_d, query_d, from, to, chunk) ==
    LET auth == require_device_auth(db, token, body_d, query_d)
    IN IF auth.device_id = NoDev
       THEN AuthReject(s, token, body_d, query_d, auth.resp)
       ELSE ota_get_chunk_request(s, auth.device_id, query_d, from, to, chunk)

-----------------------------------------------------------------------------
(* Initial states and specifications *)

FwRow(version, is_current) ==
    [version |-> version, binary_size |-> 456789, sha256 |-> "fw-sha",
     release_notes |-> "", is_current |-> is_current]

PatchRow(from, to, chunk_count) ==
    [from_version |-> from, to_version |-> to,
     patch_size |-> SizeOfChunks(chunk_count), chunk_count |-> chunk_count,
     sha256 |-> "patch-sha", compression |-> "heatshrink"]

DeviceRow(version) == [firmware_version |-> version, pending_command |-> NULL]

\* A deployment: 4.7 is current, patches 4.6 -> 4.7 and 4.5 -> 4.7 are
\* registered with their artifacts; 4.5 -> 4.6 has an artifact without
\* metadata; the artifact of 4.6 -> 4.5 was regenerated as a single chunk
\* while its metadata file still says two.
InitDb ==
    [firmware_versions |-> SetToBag({FwRow("4.6", 0), FwRow("4.7", 1)}),
     ota_patches |-> SetToBag({PatchRow("4.6", "4.7", MaxChunks),
                               PatchRow("4.5", "4.7", MaxChunks - 1)}),
     device_ota_progress |-> EmptyBag,
     devices |-> [d \in Devices |-> DeviceRow(IF d = "JBNB0001" THEN "4.6" ELSE "4.5")]]

InitFiles ==
    [bin |-> [p \in Pairs |->
                IF p = <<"4.6", "4.7">> THEN SizeOfChunks(MaxChunks)
                ELSE IF p = <<"4.5", "4.7">> THEN SizeOfChunks(MaxChunks - 1)
                ELSE IF p = <<"4.5", "4.6">> THEN SizeOfChunks(1)
                ELSE IF p = <<"4.6", "4.5">> THEN SizeOfChunks(1)
                ELSE NoFile],
     meta |-> [p \in Pairs |->
                IF p = <<"4.6", "4.7">> THEN MaxChunks
                ELSE IF p = <<"4.5", "4.7">> THEN MaxChunks - 1
                ELSE IF p = <<"4.6", "4.5">> THEN 2
                ELSE NoFile]]

Init ==
    /\ db = InitDb
    /\ txn = db
    /\ writer = NoSlot
    /\ patch_files = InitFiles
    /\ req = [s \in Slots |-> IdleReq]
    /\ out = NoOut
    /\ served = [k \in Keys |-> {}]
    /\ lastResume = [k \in Keys |-> NoResume]
    /\ failedNoCheck = [k \in Keys |-> FALSE]
    /\ commands = NoCommands

\* The requests of the devices under Spec.
SpecDevices == {"JBNB0001"}
CheckInputs == {"4.5", "4.6", "4.7"}
ChunkInputs == {<<"4.6", "4.7">>} \X {<<i>> : i \in 0..(MaxChunks - 1)}
CompleteInputs == {"4.7"}
Messages == {"flash write error"}

Next ==
    \E s \in Slots :
        \/ \E d \in SpecDevices, v \in CheckInputs : ota_check_request(s, d, v)
        \/ ota_check_select_current(s)
        \/ ota_check_select_patch(s)
        \/ ota_check_select_progress(s)
        \/ ota_check_insert(s)
        \/ \E d \in SpecDevices, c \in ChunkInputs :
              ota_get_chunk_request(s, d, NoDev, c[1][1], c[1][2], c[2])
        \/ ota_get_chunk_update(s)
        \/ \E d \in SpecDevices, v \in CompleteInputs :
              \/ ota_complete_request(s, d, v, TRUE, NULL)
              \/ \E m \in Messages : ota_complete_request(s, d, v, FALSE, m)
        \/ ota_complete_update_progress(s)
        \/ ota_complete_update_device(s)
        \/ ota_complete_commit(s)
        \/ ota_complete_update_failed(s)
        \/ Abort(s)

Spec == Init /\ [][Next]_vars

-----------------------------------------------------------------------------
(* The firmware registry under concurrent administrative calls, from the    *)
(* empty database init_db creates.                                          *)

EmptyDb ==
    [firmware_versions |-> EmptyBag, ota_patches |-> EmptyBag,
     device_ota_progress |-> EmptyBag,
     devices |-> [d \in Devices |-> DeviceRow(NULL)]]

InitAdmin ==
    /\ db = EmptyDb
    /\ txn = db
    /\ writer = NoSlot
    /\ patch_files = InitFiles
    /\ req = [s \in Slots |-> IdleReq]
    /\ out = NoOut
    /\ served = [k \in Keys |-> {}]
    /\ lastResume = [k \in Keys |-> NoResume]
    /\ failedNoCheck = [k \in Keys |-> FALSE]
    /\ commands = NoCommands

\* Two builds of a firmware image: (binary_size, sha256, release_notes).
Builds == {<<456789, "sha-a", "first build">>, <<460000, "sha-b", "">>}

FirmwareInputs ==
    [version : Versions, binary_size : {b[1] : b \in Builds},
     sha256 : {b[2] : b \in Builds}, release_notes : {b[3] : b \in Builds},
     is_current : BOOLEAN]

RegisterFirmwareInputs ==
    {a \in FirmwareInputs : <<a.binary_size, a.sha256, a.release_notes>> \in Builds}
    \cup {[version |-> Missing, binary_size |-> 456789, sha256 |-> "sha-a",
           release_notes |-> "", is_current |-> TRUE]}

NextAdmin ==
    \E s \in Slots :
        \/ \E a \in RegisterFirmwareInputs : ota_register_firmware_request(s, a)
        \/ ota_register_firmware_clear(s)
        \/ ota_register_firmware_upsert(s)
        \/ ota_register_firmware_commit(s)
        \/ Abort(s)

SpecAdmin == InitAdmin /\ [][NextAdmin]_vars

-----------------------------------------------------------------------------
(* The patch catalog under concurrent administrative calls, from the empty  *)
(* database.                                                                *)

\* Admin-supplied (patch_size, chunk_count, sha256, compression); the sizes
\* and counts are whatever the caller sends.
PatchBuilds ==
    {<<SizeOfChunks(MaxChunks), MaxChunks, "sha-p1", Missing>>,
     <<SizeOfChunks(MaxChunks - 1), MaxChunks - 1, "sha-p2", "none">>,
     <<12345, MaxChunks, "sha-p3", "heatshrink">>}

PatchInput(from, to, b) ==
    [from_version |-> from, to_version |-> to, patch_size |-> b[1],
     chunk_count |-> b[2], sha256 |-> b[3], compression |-> b[4]]

RegisterPatchInputs ==
    {PatchInput(p[1], p[2], b) : p \in {<<"4.6", "4.7">>, <<"4.5", "4.7">>},
                                 b \in PatchBuilds}
    \cup {PatchInput("4.6", "4.7", <<0, MaxChunks, "sha-p1", Missing>>)}

NextPatch ==
    \E s \in Slots :
        \/ \E a \in RegisterPatchInputs : ota_register_patch_request(s, a)
        \/ ota_register_patch_upsert(s)
        \/ ota_register_patch_commit(s)
        \/ Abort(s)

SpecPatch == InitAdmin /\ [][NextPatch]_vars

-----------------------------------------------------------------------------
(* One request at a time: a device and an administrator who registers       *)
(* further patches, against a catalog that starts with the patch            *)
(* 4.6 -> 4.7 alone.                                                        *)

SeqDb ==
    [InitDb EXCEPT !.ota_patches = SetToBag({PatchRow("4.6", "4.7", MaxChunks)})]

InitSeq ==
    /\ db = SeqDb
    /\ txn = db
    /\ writer = NoSlot
    /\ patch_files = InitFiles
    /\ req = [s \in Slots |-> IdleReq]
    /\ out = NoOut
    /\ served = [k \in Keys |-> {}]
    /\ lastResume = [k \in Keys |-> NoResume]
    /\ failedNoCheck = [k \in Keys |-> FALSE]
    /\ commands = NoCommands

SeqSlot == "r1"
SeqCheckInputs == {"4.5", "4.6", "4.7", Missing}

\* (from, to) and chunk: every index of 4.6 -> 4.7, the one before the first
\* and the first one past the end, both indices the metadata of 4.6 -> 4.5 allows, a pair without
\* metadata, a pair without artifact, and a query without chunk.
SeqChunkInputs ==
    ({<<"4.6", "4.7">>} \X {<<i>> : i \in (0 - 1)..MaxChunks})
    \cup ({<<"4.6", "4.5">>} \X {<<0>>, <<1>>})
    \cup {<<<<"4.5", "4.6">>, <<0>>>>, <<<<"4.7", "4.5">>, <<0>>>>,
          <<<<"4.6", "4.7">>, <<>>>>}

SeqPatchInputs ==
    {PatchInput("4.5", "4.6", <<SizeOfChunks(1), 1, "sha-p0", Missing>>),
     PatchInput("4.5", "4.7", <<SizeOfChunks(MaxChunks - 1), MaxChunks - 1,
                                "sha-p2", Missing>>)}

NextSeq ==
    \/ \E d \in SpecDevices, v \in SeqCheckInputs : ota_check_request(SeqSlot, d, v)
    \/ ota_check_select_current(SeqSlot)
    \/ ota_check_select_patch(SeqSlot)
    \/ ota_check_select_progress(SeqSlot)
    \/ ota_check_insert(SeqSlot)
    \/ \E d \in SpecDevices, c \in SeqChunkInputs :
          ota_get_chunk_request(SeqSlot, d, NoDev, c[1][1], c[1][2], c[2])
    \/ ota_get_chunk_update(SeqSlot)
    \/ \E d \in SpecDevices, v \in CompleteInputs :
          \/ ota_complete_request(SeqSlot, d, v, TRUE, NULL)
          \/ \E m \in Messages : ota_complete_request(SeqSlot, d, v, FALSE, m)
    \/ ota_complete_update_progress(SeqSlot)
    \/ ota_complete_update_device(SeqSlot)
    \/ ota_complete_commit(SeqSlot)
    \/ ota_complete_update_failed(SeqSlot)
    \/ \E a \in SeqPatchInputs : ota_register_patch_request(SeqSlot, a)
    \/ ota_register_patch_upsert(SeqSlot)
    \/ ota_register_patch_commit(SeqSlot)
    \/ Abort(SeqSlot)

SpecSeq == InitSeq /\ [][NextSeq]_vars

-----------------------------------------------------------------------------
(* calculate_crc16 applied to byte sequences of bounded length.             *)

MaxCrcLen == 3

\* Bytes with no bit, the low bit, each nibble, alternating bits, the high
\* bit and every bit set.
CrcBytes == {0, 1, 15, 85, 128, 170, 240, 255}

RECURSIVE SeqsUpTo(_, _)
SeqsUpTo(S, n) ==
    IF n = 0 THEN {<<>>}
    ELSE LET shorter == SeqsUpTo(S, n - 1)
         IN shorter \cup {Append(q, x) : q \in shorter, x \in S}

\* The ASCII string 123456789.
Digits123456789 == <<49, 50, 51, 52, 53, 54, 55, 56, 57>>

CrcInputs == SeqsUpTo(CrcBytes, MaxCrcLen) \cup {Digits123456789}

InitCrc ==
    /\ db = EmptyDb
    /\ txn = db
    /\ writer = NoSlot
    /\ patch_files = InitFiles
    /\ \E data \in CrcInputs :
          req = [s \in Slots |->
                   IF s = SeqSlot
                   THEN [h |-> "calculate_crc16", pc |-> "call", a |-> data, l |-> NoArgs]
                   ELSE IdleReq]
    /\ out = NoOut
    /\ served = [k \in Keys |-> {}]
    /\ lastResume = [k \in Keys |-> NoResume]
    /\ failedNoCheck = [k \in Keys |-> FALSE]
    /\ commands = NoCommands

NextCrc == calculate_crc16_call(SeqSlot)

SpecCrc == InitCrc /\ [][NextCrc]_vars

-----------------------------------------------------------------------------
(* Two provisioned devices behind require_device_auth, one request at a     *)
(* time.                                                                    *)

DeviceTokens == [d \in Devices |-> IF d = "JBNB0001" THEN "token-1" ELSE "token-2"]

\* A devices row as register_device leaves it.
ActiveDeviceRow(d, version) ==
    [firmware_version |-> version, pending_command |-> NULL,
     token_hash |-> hash_token(DeviceTokens[d]), status |-> "active"]

AuthDb ==
    [SeqDb EXCEPT !.devices = [d \in Devices |-> ActiveDeviceRow(d, "4.6")]]

InitAuth ==
    /\ db = AuthDb
    /\ txn = db
    /\ writer = NoSlot
    /\ patch_files = InitFiles
    /\ req = [s \in Slots |-> IdleReq]
    /\ out = NoOut
    /\ served = [k \in Keys |-> {}]
    /\ lastResume = [k \in Keys |-> NoResume]
    /\ failedNoCheck = [k \in Keys |-> FALSE]
    /\ commands = NoCommands

\* Bearer tokens: each device's, one of nobody, and no header.
AuthTokens == {DeviceTokens[d] : d \in Devices} \cup {"token-x", Missing}

\* Device identifiers in a body: none, the devices, an unregistered one.
AuthBodyDevices == {NoDev, "JBNB0099"} \cup Devices
AuthQueryDevices == {NoDev} \cup Devices

AuthChunkInputs == {<<"4.6", "4.7">>} \X {<<i>> : i \in 0..(MaxChunks - 1)}

NextAuth ==
    \/ \E t \in AuthTokens, b \in AuthBodyDevices :
          ota_check_decorated(SeqSlot, t, b, NoDev, "4.6")
    \/ ota_check_select_current(SeqSlot)
    \/ ota_check_select_patch(SeqSlot)
    \/ ota_check_select_progress(SeqSlot)
    \/ ota_check_insert(SeqSlot)
    \/ \E t \in AuthTokens, b \in AuthBodyDevices, q \in AuthQueryDevices,
          c \in AuthChunkInputs :
          ota_get_chunk_decorated(SeqSlot, t, b, q, c[1][1], c[1][2], c[2])
    \/ ota_get_chunk_update(SeqSlot)

SpecAuth == InitAuth /\ [][NextAuth]_vars

-----------------------------------------------------------------------------
(* Commands queued for one device while it sends heartbeats and readings,   *)
(* two requests at a time.                                                  *)

CommandInputs == {"ota_check", "reboot", "selftest"}
CommandDevices == SpecDevices \cup {"JBNB0099"}
ContactFirmware == {NULL, "4.7"}

NextCommand ==
    \E s \in Slots :
        \/ \E d \in CommandDevices, c \in CommandInputs : queue_command_request(s, d, c)
        \/ queue_command_select_device(s)
        \/ queue_command_update(s)
        \/ \E d \in SpecDevices, fw \in ContactFirmware : heartbeat_request(s, d, fw)
        \/ heartbeat_store(s)
        \/ heartbeat_select_command(s)
        \/ heartbeat_clear(s)
        \/ \E d \in SpecDevices, fw \in ContactFirmware, complete \in BOOLEAN :
              receive_reading_request(s, d, fw, complete)
        \/ receive_reading_store(s)
        \/ receive_reading_select_command(s)
        \/ receive_reading_clear(s)
        \/ Abort(s)

SpecCommand == Init /\ [][NextCommand]_vars

-----------------------------------------------------------------------------
(* Properties *)

Sessions(t, k) == SelectProgress(t, k[1], k[2])

MaxOf(S) == CHOOSE x \in S : \A y \in S : x >= y

\* The step is one of the handler in slot s, at position at.
StepOf(s, handler, at) == Running(s, handler, at) /\ req'[s] # req[s]

\* The step returns a response of handler with status code 200.
Returns200(handler) == out'.h = handler /\ out'.resp.code = 200

\* C1: across every step (of Check, Fetch chunk, Complete, in any
\* interleaving) each existing session survives and its chunks_received is
\* at least what it was before the step.
C1_WatermarkNeverDecreases ==
    [][\A k \in Keys : \A r \in Sessions(db, k) :
          /\ Sessions(db', k) # {}
          /\ \A n \in Sessions(db', k) : n.chunks_received >= r.chunks_received]_vars

\* A fetch of an index below the watermark (a late retry) is in flight for a
\* session whose watermark is at the last chunk.
C1_Witness ==
    \E k \in Keys, s \in Slots :
        /\ \E r \in Sessions(db, k) : r.chunks_received = MaxChunks
        /\ Running(s, "ota_get_chunk", "update")
        /\ req[s].a.device_id = k[1] /\ req[s].a.to_version = k[2]
        /\ req[s].a.chunk_index + 1 < MaxChunks

\* C2: a session's watermark equals the maximum of 0 (its watermark at
\* creation) and i + 1 over every index i fetched successfully for it, in
\* whatever order the fetches were applied.
C2_WatermarkIsMaxServed ==
    \A k \in Keys : \A r \in Sessions(db, k) :
        r.chunks_received = MaxOf({0} \cup {i + 1 : i \in served[k]})

\* The fetch that just returned served an index below the watermark, after
\* several indices had been served for the session.
C2_Witness ==
    \E k \in Keys :
        /\ Cardinality(served[k]) >= 2
        /\ out.h = "ota_get_chunk" /\ out.resp.code = 200
        /\ \E r \in Sessions(db, k) : out.resp.body.chunk + 1 < r.chunks_received

\* C4: device_ota_progress holds at most one row per (device, target
\* version), duplicates counted.
C4_OneSessionPerKey ==
    \A k \in Keys : CountProgress(db, k[1], k[2]) <= 1

\* A Check that found no session is about to insert one although a
\* concurrent Check has created it in the meantime.
C4_Witness ==
    \E s \in Slots :
        /\ Running(s, "ota_check", "insert")
        /\ Sessions(db, <<req[s].a.device_id, req[s].l.target_version>>) # {}

\* C5: the step in which a Check finds an existing session changes no
\* session and creates none, and offers that session's watermark; and the
\* resume_from of two Check offers for the same session with no chunk fetch
\* between them is the same.
C5_CheckLeavesSession ==
    [][/\ \A s \in Slots :
            (/\ StepOf(s, "ota_check", "select_progress")
             /\ Sessions(db, <<req[s].a.device_id, req[s].l.target_version>>) # {}
             /\ Returns200("ota_check"))
            => /\ db' = db
               /\ \E r \in Sessions(db, <<req[s].a.device_id, req[s].l.target_version>>) :
                     /\ out'.resp.body.resume_from = r.chunks_received
                     /\ out'.resp.body.status = r.status
       /\ \A k \in Keys :
            (lastResume[k] # NoResume /\ lastResume'[k] # NoResume)
            => lastResume'[k] = lastResume[k]]_vars

\* A Check has just resumed a session that is failed part-way through.
C5_Witness ==
    /\ out.h = "ota_check" /\ out.resp.code = 200
    /\ out.resp.body.update_available
    /\ out.resp.body.status = "failed"
    /\ out.resp.body.resume_from >= 1
    /\ \E k \in Keys : lastResume[k] = out.resp.body.resume_from

\* C6 (as claimed): a session's status only moves forward along
\* pending -> downloading -> {complete, failed}; complete and failed are
\* never left.
C6_StatusOnlyForward ==
    [][\A k \in Keys : \A r \in Sessions(db, k) : \A n \in Sessions(db', k) :
          \/ n.status = r.status
          \/ r.status = "pending"
          \/ r.status = "downloading" /\ n.status \in {"complete", "failed"}]_vars

\* C7 (as claimed): from a failed completion report until the device's next
\* Check the session's status is failed.
C7_FailedUntilCheck ==
    \A k \in Keys : failedNoCheck[k] => \A r \in Sessions(db, k) : r.status = "failed"

\* C8: the step that commits Complete(success=true) leaves the session, if
\* there is one, complete and the device's firmware_version equal to the
\* target; and in any step in which a session becomes complete the device's
\* firmware_version becomes (or is) its target.
C8_CompleteIsAtomic ==
    [][/\ \A s \in Slots :
            (StepOf(s, "ota_complete", "commit") /\ Returns200("ota_complete"))
            => /\ \A n \in Sessions(db', <<req[s].a.device_id, req[s].a.new_version>>) :
                     n.status = "complete"
               /\ db'.devices[req[s].a.device_id].firmware_version = req[s].a.new_version
       /\ \A k \in Keys :
            (/\ \E n \in Sessions(db', k) : n.status = "complete"
             /\ \A r \in Sessions(db, k) : r.status # "complete")
            => db'.devices[k[1]].firmware_version = k[2]]_vars

\* Complete(success=true) has just returned for an existing session that had
\* received chunks, and the device record carries the target.
C8_Witness ==
    /\ out.h = "ota_complete" /\ out.resp = CompleteOk
    /\ \E k \in Keys :
          /\ \E r \in Sessions(db, k) : r.status = "complete" /\ r.chunks_received >= 1
          /\ db.devices[k[1]].firmware_version = k[2]

\* C9: once a Complete has taken effect, a second Complete with the same
\* target and outcome changes nothing in the database (session status,
\* watermark, error message, device firmware version) and returns the same
\* response, with status code 200.
C9_CompleteIdempotent ==
    [][\A s \in Slots :
          (/\ (StepOf(s, "ota_complete", "commit") \/ StepOf(s, "ota_complete", "update_failed"))
           /\ Returns200("ota_complete"))
          => LET a == req[s].a
             IN /\ CompleteTxn(db', a.device_id, a.new_version, a.success,
                               a.error_message) = db'
                /\ CompleteResponse(a.success, a.error_message) = out'.resp]_vars

\* A second Complete(success=true) for a session that is already complete
\* is about to commit, and its transaction holds no change.
C9_Witness ==
    \E s \in Slots :
        /\ Running(s, "ota_complete", "commit")
        /\ txn = db
        /\ \E r \in Sessions(db, <<req[s].a.device_id, req[s].a.new_version>>) :
              r.status = "complete"
        /\ db.devices[req[s].a.device_id].firmware_version = req[s].a.new_version

\* C10: the step that commits Complete(success=false, error=m) leaves every
\* row of the session failed with error message m and its watermark and
\* total as they were, and leaves the devices table unchanged; and sessions
\* change only in steps of a device's Check, Fetch chunk or Complete request.
C10_FailedReport ==
    [][/\ \A s \in Slots :
            (StepOf(s, "ota_complete", "update_failed") /\ Returns200("ota_complete"))
            => LET k == <<req[s].a.device_id, req[s].a.new_version>>
               IN /\ Sessions(db', k) =
                       {[r EXCEPT !.status = "failed",
                                  !.error_message = req[s].a.error_message] :
                          r \in Sessions(db, k)}
                  /\ db'.devices = db.devices
       /\ db'.device_ota_progress # db.device_ota_progress
            => \E s \in Slots :
                  /\ req[s].h \in {"ota_check", "ota_get_chunk", "ota_complete"}
                  /\ req'[s] # req[s]]_vars

\* Complete(success=false) has just returned for a session that had received
\* chunks: it is failed, carries the message, and keeps its watermark.
C10_Witness ==
    /\ out.h = "ota_complete" /\ out.resp = CompleteFailed("flash write error")
    /\ \E k \in Keys : \E r \in Sessions(db, k) :
          /\ r.status = "failed" /\ r.error_message = "flash write error"
          /\ r.chunks_received >= 1

\* C3: the committed firmware registry never holds more than one current
\* version, also when register calls interleave or are aborted in
\* mid-transaction; and a version loses its current flag in a committed
\* state only in the step in which another version gains it, or in which
\* that very version is re-registered with is_current false.
C3_AtMostOneCurrent ==
    /\ [](CountCurrent(db) <= 1)
    /\ [][\A x \in SelectCurrentFw(db) :
            (\A y \in SelectCurrentFw(db') : y.version # x.version)
            => \/ SelectCurrentFw(db') # {}
               \/ \E s \in Slots :
                     /\ StepOf(s, "ota_register_firmware", "commit")
                     /\ req[s].a.version = x.version /\ ~req[s].a.is_current]_vars

\* A register call that makes another version current has cleared the old
\* flag in its transaction and not yet set the new one, while the committed
\* registry still has its current version.
C3_Witness ==
    /\ writer # NoSlot
    /\ CountCurrent(txn) = 0
    /\ CountCurrent(db) = 1
    /\ Cardinality(BagToSet(db.firmware_versions)) >= 2

\* C11: the step in which a fetch of index i applies its UPDATE to a session
\* whose watermark is already at least i + 1 (whatever the session's status)
\* changes no row of the database, and answers with the chunk number, the
\* byte range [i*512, ...) of the artifact, its size and the metadata's total,
\* all functions of the stored artifact and i alone; and no step changes the
\* stored artifacts, so that every fetch of i returns what the first one did.
C11_RefetchIdempotent ==
    [][/\ \A s \in Slots :
            (/\ StepOf(s, "ota_get_chunk", "update")
             /\ Returns200("ota_get_chunk")
             /\ \E r \in Sessions(db, <<req[s].a.device_id, req[s].a.to_version>>) :
                   r.chunks_received >= req[s].a.chunk_index + 1)
            => LET a == req[s].a
                   p == <<a.from_version, a.to_version>>
               IN /\ db' = db
                  /\ out'.resp = ChunkResponse(a.chunk_index,
                                               ReadChunk(patch_files.bin[p], a.chunk_index),
                                               patch_files.meta[p])
       /\ patch_files' = patch_files]_vars

\* A fetch of an index below the watermark has just returned for a session
\* that is complete with every chunk received, and the session is as it was.
C11_Witness ==
    /\ out.h = "ota_get_chunk" /\ out.resp.code = 200
    /\ \E k \in Keys : \E r \in Sessions(db, k) :
          /\ r.status = "complete"
          /\ r.chunks_received = r.total_chunks
          /\ out.resp.body.chunk \in served[k]
          /\ out.resp.body.chunk + 1 <= r.chunks_received

\* Number of ota_patches rows for (from, to), duplicates counted.
CountPatch(t, from, to) ==
    BagCardinality(BagWhere(t.ota_patches, SelectPatch(t, from, to)))

\* The ota_patches rows of pairs other than (from, to), with multiplicities.
OtherPatches(t, from, to) ==
    BagWhere(t.ota_patches, BagToSet(t.ota_patches) \ SelectPatch(t, from, to))

CeilDiv(a, b) == (a + b - 1) \div b

\* C18: the committed catalog never holds more than one patch per
\* (from, to), duplicates counted, also when register calls interleave; and
\* the step that commits a register-patch call answers 201 and leaves
\* exactly the record of the call for its pair (size, chunk count, hash and
\* compression tag replaced when the pair existed) and every other patch as
\* it was.
C18_PatchUpsert ==
    /\ [](\A p \in Pairs : CountPatch(db, p[1], p[2]) <= 1)
    /\ [][\A s \in Slots :
            (/\ StepOf(s, "ota_register_patch", "commit")
             /\ ~(out'.resp.code = 500))
            => LET a == req[s].a
               IN /\ out'.resp = PatchRegistered(a)
                  /\ SelectPatch(db', a.from_version, a.to_version) = {PatchOf(a)}
                  /\ OtherPatches(db', a.from_version, a.to_version)
                       = OtherPatches(db, a.from_version, a.to_version)]_vars

\* A register-patch call for a pair that is already in the catalog with
\* another size and hash is about to commit, and the catalog holds a patch
\* of another pair.
C18_Witness ==
    \E s \in Slots :
        /\ Running(s, "ota_register_patch", "commit")
        /\ SelectPatch(db, req[s].a.from_version, req[s].a.to_version) # {}
        /\ \A r \in SelectPatch(db, req[s].a.from_version, req[s].a.to_version) :
              r.patch_size # req[s].a.patch_size /\ r.sha256 # req[s].a.sha256
        /\ OtherPatches(db, req[s].a.from_version, req[s].a.to_version) # EmptyBag

\* C19 (as claimed): every patch in the committed catalog has
\* chunk_count = ceil(patch_size / 512).
C19_ChunkCountIsCeil ==
    \A r \in BagToSet(db.ota_patches) :
        r.chunk_count = CeilDiv(r.patch_size, OTA_CHUNK_SIZE)

\* SELECT ... FROM firmware_versions WHERE version = ?
SelectFirmware(t, version) ==
    {r \in BagToSet(t.firmware_versions) : r.version = version}

\* Number of firmware_versions rows for version, duplicates counted.
CountFirmware(t, version) ==
    BagCardinality(BagWhere(t.firmware_versions, SelectFirmware(t, version)))

\* C15: in the state reached by the step that commits a register-firmware
\* call with is_current true, exactly one row of the registry is current,
\* duplicates counted, and it is the row of the version just registered.
C15_ExactlyOneCurrentAfterMark ==
    [][\A s \in Slots :
          (/\ StepOf(s, "ota_register_firmware", "commit")
           /\ ~(out'.resp.code = 500)
           /\ req[s].a.is_current)
          => /\ out'.resp = FirmwareRegistered(req[s].a)
             /\ CountCurrent(db') = 1
             /\ SelectCurrentFw(db') = {FirmwareRow(req[s].a)}]_vars

\* A register call that makes current a version already registered as not
\* current is about to commit while another version is the current one.
C15_Witness ==
    \E s \in Slots :
        /\ Running(s, "ota_register_firmware", "commit")
        /\ req[s].a.is_current
        /\ \E r \in SelectFirmware(db, req[s].a.version) : r.is_current = 0
        /\ \E x \in SelectCurrentFw(db) : x.version # req[s].a.version

\* C16 (as claimed): once the committed registry has a current version,
\* every later state has one.
C16_CurrentNeverLost ==
    [][SelectCurrentFw(db) # {} => SelectCurrentFw(db') # {}]_vars

\* C17: the committed registry never holds more than one row per version,
\* duplicates counted; and the step that commits a register-firmware call
\* answers 201 and leaves for its version exactly the row of the call
\* (size, hash, notes and current flag), whether or not the version was
\* registered before.
C17_FirmwareUpsert ==
    /\ [](\A v \in Versions : CountFirmware(db, v) <= 1)
    /\ [][\A s \in Slots :
            (/\ StepOf(s, "ota_register_firmware", "commit")
             /\ ~(out'.resp.code = 500))
            => /\ out'.resp = FirmwareRegistered(req[s].a)
               /\ SelectFirmware(db', req[s].a.version) = {FirmwareRow(req[s].a)}
               /\ BagCardinality(db'.firmware_versions) =
                    BagCardinality(db.firmware_versions) +
                    (IF SelectFirmware(db, req[s].a.version) = {} THEN 1 ELSE 0)]_vars

\* A register call for a version that is registered with another size,
\* hash, notes and current flag is about to commit.
C17_Witness ==
    \E s \in Slots :
        /\ Running(s, "ota_register_firmware", "commit")
        /\ \E r \in SelectFirmware(db, req[s].a.version) :
              /\ r.binary_size # req[s].a.binary_size
              /\ r.sha256 # req[s].a.sha256
              /\ r.release_notes # req[s].a.release_notes
              /\ r.is_current = 1 /\ ~req[s].a.is_current

\* The step is one in which the handler in slot s, at any position, goes on
\* or returns by itself (it is not cut short by Abort).
HandlerStep(s, handler) ==
    /\ req[s].h = handler
    /\ req'[s] # req[s]
    /\ ~(out'.h = handler /\ out'.resp = Error(500, "aborted"))

\* C12: for a Check running alone that declares V while the registry's
\* current version T differs from V and the catalog holds a patch V -> T:
\* whenever the Check returns, it returns 200 with update_available true,
\* target_version T, chunk_size 512, the patch_size, chunk_count and hash of
\* the catalog record, and resume_from and status equal to the watermark
\* and status of the session for (device, T) in the resulting database; a
\* session that existed is left as it was, and one that did not exists now
\* and is offered with resume_from 0 and status pending.
C12_CheckOffer ==
    [][\A s \in Slots : req[s].h = "ota_check" =>
          \A fw \in {r \in BagToSet(db.firmware_versions) : r.is_current = 1} :
          \A p \in {r \in BagToSet(db.ota_patches) :
                      /\ r.from_version = req[s].a.current_version
                      /\ r.to_version = fw.version} :
            (/\ HandlerStep(s, "ota_check")
             /\ fw.version # req[s].a.current_version
             /\ out'.h = "ota_check")
            => LET k == <<req[s].a.device_id, fw.version>>
                   b == out'.resp.body
               IN /\ out'.resp.code = 200
                  /\ b.update_available
                  /\ b.target_version = fw.version
                  /\ b.patch_size = p.patch_size
                  /\ b.chunk_count = p.chunk_count
                  /\ b.patch_sha256 = p.sha256
                  /\ b.chunk_size = 512
                  /\ \E r \in Sessions(db', k) :
                        b.resume_from = r.chunks_received /\ b.status = r.status
                  /\ IF Sessions(db, k) = {}
                     THEN b.resume_from = 0 /\ b.status = "pending"
                     ELSE db' = db]_vars

\* A Check declaring 4.5 has just been offered the patch 4.5 -> 4.7,
\* registered after the session was created, with the watermark and status
\* of the session that is under way.
C12_Witness ==
    /\ out.h = "ota_check" /\ out.resp.code = 200
    /\ out.resp.body.update_available
    /\ out.resp.body.patch_sha256 = "sha-p2"
    /\ out.resp.body.status = "downloading"
    /\ out.resp.body.resume_from >= 1

\* C13: the step in which a Check finds that the declared version is the
\* registry's current version returns 200 with update_available false and
\* reason up_to_date, and leaves the database (every session included) as
\* it was.
C13_UpToDate ==
    [][\A s \in Slots :
          (/\ HandlerStep(s, "ota_check")
           /\ \E fw \in BagToSet(db.firmware_versions) :
                 fw.is_current = 1 /\ fw.version = req[s].a.current_version)
          => /\ out'.h = "ota_check"
             /\ out'.resp.code = 200
             /\ ~out'.resp.body.update_available
             /\ out'.resp.body.reason = "up_to_date"
             /\ db' = db]_vars

\* A Check declaring the current version has just been answered up_to_date
\* while the device has a session and the catalog holds several patches, one
\* of them towards the declared version's target.
C13_Witness ==
    /\ out.h = "ota_check" /\ out.resp.code = 200
    /\ ~out.resp.body.update_available
    /\ out.resp.body.reason = "up_to_date"
    /\ \E k \in Keys : Sessions(db, k) # {}
    /\ Cardinality(BagToSet(db.ota_patches)) >= 2

\* C14: a Check that has found the current version T, different from the
\* declared V, while the catalog holds no patch V -> T, returns 200 with
\* update_available false, reason no_patch, current V and target T, and
\* leaves the database as it was - whatever other patches are registered.
C14_NoPatchNoChaining ==
    [][\A s \in Slots :
          \A fw \in {r \in BagToSet(db.firmware_versions) : r.is_current = 1} :
            (/\ HandlerStep(s, "ota_check")
             /\ req[s].pc # "select_current"
             /\ fw.version # req[s].a.current_version
             /\ ~\E r \in BagToSet(db.ota_patches) :
                   /\ r.from_version = req[s].a.current_version
                   /\ r.to_version = fw.version)
            => /\ out'.h = "ota_check"
               /\ out'.resp.code = 200
               /\ ~out'.resp.body.update_available
               /\ out'.resp.body.reason = "no_patch"
               /\ out'.resp.body.current = req[s].a.current_version
               /\ out'.resp.body.target = fw.version
               /\ db' = db]_vars

\* A Check declaring 4.5 has just been answered no_patch although the
\* catalog holds 4.5 -> 4.6 and 4.6 -> 4.7.
C14_Witness ==
    /\ out.h = "ota_check" /\ out.resp.code = 200
    /\ ~out.resp.body.update_available
    /\ out.resp.body.reason = "no_patch"
    /\ out.resp.body.current = "4.5" /\ out.resp.body.target = "4.7"
    /\ \E r \in BagToSet(db.ota_patches) :
          r.from_version = "4.5" /\ r.to_version = "4.6"
    /\ \E r \in BagToSet(db.ota_patches) :
          r.from_version = "4.6" /\ r.to_version = "4.7"

\* C20 (as claimed): a fetch that is accepted and returns index i of an
\* artifact of S bytes returns the byte range that starts at i * 512 and
\* holds min(512, S - i * 512) bytes, which is at least one byte and at most
\* 512.
C20_ChunkLength ==
    [][\A s \in Slots :
          (/\ HandlerStep(s, "ota_get_chunk")
           /\ out'.h = "ota_get_chunk" /\ out'.resp.code = 200)
          => LET i == req[s].a.chunk_index
                 S == patch_files.bin[<<req[s].a.from_version, req[s].a.to_version>>]
                 b == out'.resp.body
             IN /\ b.chunk = i
                /\ b.size = Min(512, S - i * 512)
                /\ b.data = [offset |-> i * 512, size |-> Min(512, S - i * 512)]
                /\ b.size > 0 /\ b.size <= 512]_vars

\* C23 (as claimed): every session has 0 <= chunks_received <= total_chunks,
\* and every offer a Check returns has resume_from <= chunk_count.
C23_WatermarkWithinTotal ==
    /\ \A k \in Keys : \A r \in Sessions(db, k) :
          0 <= r.chunks_received /\ r.chunks_received <= r.total_chunks
    /\ (out.h = "ota_check" /\ out.resp.code = 200 /\ out.resp.body.update_available)
         => out.resp.body.resume_from <= out.resp.body.chunk_count

\* C24 (as claimed): a session whose status is complete has
\* chunks_received = total_chunks.
C24_CompleteHasAllChunks ==
    \A k \in Keys : \A r \in Sessions(db, k) :
        r.status = "complete" => r.chunks_received = r.total_chunks

\* C26 (as claimed): a Check that found no session for (device, target) and
\* goes on to insert one returns an offer with resume_from 0 and status
\* pending, also when a concurrent Check of the same device has inserted the
\* session in the meantime.
C26_ConcurrentChecksBothOffered ==
    [][\A s \in Slots :
          (HandlerStep(s, "ota_check") /\ req[s].pc = "insert")
          => /\ out'.h = "ota_check"
             /\ out'.resp.code = 200
             /\ out'.resp.body.update_available
             /\ out'.resp.body.resume_from = 0
             /\ out'.resp.body.status = "pending"]_vars

\* C28 (as claimed): the step that commits Complete(success=true) for a
\* (device, target) without session leaves the devices table as it was and
\* creates no session.
C28_CompleteNeedsSession ==
    [][\A s \in Slots :
          (/\ HandlerStep(s, "ota_complete")
           /\ req[s].pc = "commit"
           /\ Sessions(db, <<req[s].a.device_id, req[s].a.new_version>>) = {})
          => /\ db'.devices = db.devices
             /\ db'.device_ota_progress = db.device_ota_progress]_vars

\* C29: in every state a pending session has chunks_received = 0 and a
\* downloading session has chunks_received >= 1; and a session comes into
\* being only in the insert step of a Check of its device, as a single row
\* with status pending, chunks_received 0 and total_chunks equal to the
\* chunk_count that the Check offers, which is the chunk count of the catalog
\* record for (declared version, target).
C29_PendingAndDownloading ==
    /\ [](\A k \in Keys : \A r \in Sessions(db, k) :
            /\ r.status = "pending" => r.chunks_received = 0
            /\ r.status = "downloading" => r.chunks_received >= 1)
    /\ [][\A k \in Keys :
            (Sessions(db, k) = {} /\ Sessions(db', k) # {})
            => \E s \in Slots :
                  /\ HandlerStep(s, "ota_check")
                  /\ req[s].pc = "insert"
                  /\ k = <<req[s].a.device_id, req[s].l.target_version>>
                  /\ out'.h = "ota_check" /\ out'.resp.code = 200
                  /\ Sessions(db', k) =
                       {[device_id |-> k[1], target_version |-> k[2],
                         chunks_received |-> 0,
                         total_chunks |-> out'.resp.body.chunk_count,
                         status |-> "pending", error_message |-> NULL]}
                  /\ CountProgress(db', k[1], k[2]) = 1
                  /\ \E p \in BagToSet(db.ota_patches) :
                        /\ p.from_version = req[s].a.current_version
                        /\ p.to_version = k[2]
                        /\ p.chunk_count = out'.resp.body.chunk_count]_vars

\* A session that was reported failed after its first chunk has been moved
\* on by the fetch of a later chunk: it is downloading with
\* chunks_received >= 2 and still carries the error message.
C29_Witness ==
    \E k \in Keys : \E r \in Sessions(db, k) :
        /\ r.status = "downloading"
        /\ r.chunks_received >= 2
        /\ r.error_message # NULL

\* The fetch request with arguments a passes the parameter check.
HasChunkParams(a) == a.from # Missing /\ a.to # Missing /\ a.chunk # <<>>

\* C21: a fetch whose parameters are present and whose artifact and metadata
\* files exist is answered 400, with an error and no chunk data, if its
\* index is outside [0, chunk_count) of the metadata, and is accepted if the
\* index is inside; a fetch whose artifact is absent is answered 404
\* "Patch not found", and one whose artifact exists without metadata 404
\* "Patch metadata not found", a different message.
C21_FetchErrors ==
    [][/\ (out'.h = "ota_get_chunk" /\ out'.a # NoArgs /\ HasChunkParams(out'.a))
          => LET a == out'.a
                 bin == patch_files.bin[<<a.from, a.to>>]
                 meta == patch_files.meta[<<a.from, a.to>>]
                 r == out'.resp
             IN /\ bin = NoFile
                     => /\ r.code = 404
                        /\ DOMAIN r.body = {"error"}
                        /\ r.body.error = "Patch not found"
                /\ (bin # NoFile /\ meta = NoFile)
                     => /\ r.code = 404
                        /\ DOMAIN r.body = {"error"}
                        /\ r.body.error = "Patch metadata not found"
                        /\ r.body.error # "Patch not found"
                /\ (bin # NoFile /\ meta # NoFile)
                     => /\ a.chunk[1] < 0 \/ a.chunk[1] >= meta
                        /\ r.code = 400
                        /\ DOMAIN r.body = {"error"}
                        /\ r.body.error[2] = meta - 1
       /\ \A s \in Slots :
            (req[s].h = "ota_get_chunk" /\ req[s].pc = "update")
            => LET a == req[s].a
                   p == <<a.from_version, a.to_version>>
               IN /\ patch_files.bin[p] # NoFile
                  /\ patch_files.meta[p] # NoFile
                  /\ 0 <= a.chunk_index
                  /\ a.chunk_index < patch_files.meta[p]]_vars

\* The fetch of the index one past the last chunk of an artifact whose files
\* are both there has just been answered 400.
C21_Witness ==
    /\ out.h = "ota_get_chunk" /\ out.a # NoArgs
    /\ HasChunkParams(out.a)
    /\ patch_files.bin[<<out.a.from, out.a.to>>] # NoFile
    /\ patch_files.meta[<<out.a.from, out.a.to>>] = out.a.chunk[1]
    /\ out.resp.code = 400

\* C30: a fetch that is answered with an error leaves the database as it
\* was; a fetch that is answered 200 for a (device, to_version) without
\* session leaves the database as it was, so that no session is created; and
\* no step of a fetch changes the firmware registry, the patch catalog or
\* the devices table.
C30_FetchFrame ==
    [][/\ (out'.h = "ota_get_chunk" /\ out'.resp.code # 200) => db' = db
       /\ \A s \in Slots :
            (req[s].h = "ota_get_chunk" /\ req'[s] # req[s])
            => /\ db'.firmware_versions = db.firmware_versions
               /\ db'.ota_patches = db.ota_patches
               /\ db'.devices = db.devices
               /\ Sessions(db, <<req[s].a.device_id, req[s].a.to_version>>) = {}
                    => db' = db]_vars

\* A fetch has just returned a chunk although the device has no session.
C30_Witness ==
    /\ out.h = "ota_get_chunk" /\ out.resp.code = 200
    /\ out.resp.body.size > 0
    /\ db.device_ota_progress = EmptyBag

\* The register after the n low bits of byte, most significant first, have
\* been fed one at a time into the 16-bit shift register reg with feedback
\* polynomial x^16 + x^12 + x^5 + 1.
RefCrcBits(reg, byte, n) ==
    LET feed[r \in 0..65535, k \in 0..8] ==
            IF k = 0 THEN r
            ELSE LET m == (byte \div (2 ^ (k - 1))) % 2
                     top == (r \div 32768) % 2
                     shifted == (r * 2) % 65536
                 IN feed[IF top # m THEN BitXor(shifted, 4129) ELSE shifted,
                         k - 1]
    IN feed[reg, n]

\* CRC-16/CCITT of the bytes data[i..], starting from register reg.
RefCrc(data, i, reg) ==
    LET r[j \in (i - 1)..Len(data)] ==
            IF j = i - 1 THEN reg ELSE RefCrcBits(r[j - 1], data[j], 8)
    IN r[Len(data)]

\* C22: for every byte sequence up to the bounded length (and for the ASCII
\* string 123456789) calculate_crc16 returns the CRC-16/CCITT of the
\* sequence with initial value 0xFFFF and polynomial 0x1021, computed bit by
\* bit; the result lies in 0..0xFFFF, is 0xFFFF for the empty sequence and
\* 0x29B1 for 123456789.
C22_Crc16 ==
    out.h = "calculate_crc16"
    => /\ out.resp = RefCrc(out.a, 1, 65535)
       /\ out.resp \in 0..65535
       /\ out.a = <<>> => out.resp = 65535
       /\ out.a = Digits123456789 => out.resp = 10673

\* The checksum of 123456789 has been computed.
C22_Witness ==
    /\ out.h = "calculate_crc16"
    /\ out.a = Digits123456789
    /\ out.resp = 10673

\* C25: a Fetch chunk request accepted under the credentials of device A
\* (g.device_id = A) leaves the sessions of every other device as they
\* were, whatever identifiers its body and query string carry.
C25_FetchTouchesOwnSessionsOnly ==
    [][\A s \in Slots :
          HandlerStep(s, "ota_get_chunk")
          => \A k \in Keys :
                k[1] # req[s].a.auth => Sessions(db', k) = Sessions(db, k)]_vars

\* C27: under any interleaving of queue_command, heartbeat and reading
\* requests for one device, no queued command is returned in two responses,
\* and once no request is in flight every command that was set to NULL has
\* been returned in a response.
C27_CommandDeliveredOnce ==
    /\ \A i \in CommandIds : commands.returned[i] <= 1
    /\ (\A s \in Slots : Free(s))
       => \A i \in commands.cleared : commands.returned[i] >= 1

=============================================================================
